---- MODULE Spec2Model ----
(***************************************************************************)
(* A model of main.py of the highlight checker: the stat-line extraction   *)
(* (_collect_players, _fallback_leaders), the reconstruction of the series *)
(* score before a game (_series_before_game), the badges and the loop of   *)
(* _evaluate_games over the events of a scoreboard.                        *)
(*                                                                         *)
(* JSON values are records with a type tag t: an integer (n), a float      *)
(* (n tenths), a string (s, its characters) or null.  A text that a        *)
(* regular expression reads is a sequence of words, separated in the text  *)
(* by white space.                                                         *)
(***************************************************************************)
EXTENDS Integers, Sequences, FiniteSets, TLC

VARIABLES
    pc,          \* the function that runs, "returned" once it has returned
    boxscore,    \* _collect_players: its argument
    players,     \* _collect_players / _evaluate_games: the list of stat lines
    leadersIn,   \* _fallback_leaders: comp["leaders"]
    leaderOut,   \* _fallback_leaders: out
    summary_txt, \* _series_before_game: its first argument
    competitors, \* _series_before_game: comp["competitors"]
    series_pre,  \* _series_before_game: the value returned
    statLines,   \* badge block: players
    game,        \* badge block: the scores, line scores and period of the event
    badges,      \* badge block: badges
    sb,          \* _evaluate_games: sb["events"]
    pos,         \* _evaluate_games: the number of events the loop has taken
    summ,        \* _evaluate_games: summ of the last event evaluated
    failed,      \* _evaluate_games: the positions whose _fetch_summary raised
    out          \* _evaluate_games: out

vars == <<pc, boxscore, players, leadersIn, leaderOut, summary_txt, competitors,
          series_pre, statLines, game, badges, sb, pos, summ, failed, out>>

playerVars == <<boxscore, players>>
leaderVars == <<leadersIn, leaderOut>>
seriesVars == <<summary_txt, competitors, series_pre>>
badgeVars  == <<statLines, game, badges>>
gameVars   == <<sb, pos, summ, failed, out>>

\* ------------------------------------------------------------------ bounds

MaxRosters == 2
MaxGroups == 3
MaxWins == 11
MaxPlayers == 2
MaxEvents == 3

\* ------------------------------------------------------------- JSON values

IntV(k) == [t |-> "int", n |-> k, s |-> <<>>]
FloatV(tenths) == [t |-> "float", n |-> tenths, s |-> <<>>]
StrV(chars) == [t |-> "str", n |-> 0, s |-> chars]
Null == [t |-> "null", n |-> 0, s |-> <<>>]

\* The place of a value under a key the dictionary does not have.
NoValue == [t |-> "absent", n |-> 0, s |-> <<>>]

\* A name under a key the dictionary does not have, and the None that .get()
\* gives for it.
Absent == "<absent>"
None == "<None>"

SeqsUpTo(S, k) == UNION {[1..m -> S] : m \in 0..k}

\* ------------------------------------------------------------ str -> int

DigitChars == <<"0", "1", "2", "3", "4", "5", "6", "7", "8", "9">>

IsDigit(c) == \E d \in 1..Len(DigitChars) : DigitChars[d] = c

DigitVal(c) == (CHOOSE d \in 1..Len(DigitChars) : DigitChars[d] = c) - 1

RECURSIVE DecVal(_)
DecVal(ds) ==
    IF ds = <<>> THEN 0
    ELSE 10 * DecVal(SubSeq(ds, 1, Len(ds) - 1)) + DigitVal(ds[Len(ds)])

RECURSIVE DecStr(_)
DecStr(k) ==
    IF k < 10 THEN <<DigitChars[k + 1]>>
    ELSE DecStr(k \div 10) \o <<DigitChars[(k % 10) + 1]>>

RECURSIVE LStrip(_)
LStrip(cs) == IF cs # <<>> /\ Head(cs) = " " THEN LStrip(Tail(cs)) ELSE cs

RECURSIVE RStrip(_)
RStrip(cs) ==
    IF cs # <<>> /\ cs[Len(cs)] = " " THEN RStrip(SubSeq(cs, 1, Len(cs) - 1)) ELSE cs

\* int(str): white space around, an optional sign, one digit or more.
Unsigned(cs) ==
    LET body == RStrip(LStrip(cs))
    IN  IF body # <<>> /\ Head(body) \in {"+", "-"} THEN Tail(body) ELSE body

IsIntLiteral(cs) ==
    /\ Unsigned(cs) # <<>>
    /\ \A i \in 1..Len(Unsigned(cs)) : IsDigit(Unsigned(cs)[i])

IntOfStr(cs) ==
    LET body == RStrip(LStrip(cs))
    IN  IF Head(body) = "-" THEN 0 - DecVal(Unsigned(cs)) ELSE DecVal(Unsigned(cs))

\* int(float): the fraction is cut off, towards zero.
Trunc(tenths) == IF tenths >= 0 THEN tenths \div 10 ELSE 0 - ((0 - tenths) \div 10)

_to_int(raw) ==
    CASE raw.t = "int" -> raw.n
      [] raw.t = "float" -> Trunc(raw.n)
      [] raw.t = "str" -> IF IsIntLiteral(raw.s) THEN IntOfStr(raw.s) ELSE 0
      [] OTHER -> 0

\* ------------------------------------------------------- str.lower / upper

Lower(w) ==
    CASE w \in {"PTS", "Pts"} -> "pts"
      [] w \in {"REB", "Reb"} -> "reb"
      [] w \in {"AST", "Ast"} -> "ast"
      [] w \in {"POINTS", "Points"} -> "points"
      [] w \in {"REBOUNDS", "Rebounds"} -> "rebounds"
      [] w \in {"ASSISTS", "Assists"} -> "assists"
      [] w \in {"MIN", "Min"} -> "min"
      [] w \in {"STL", "Stl"} -> "stl"
      [] w \in {"POST", "Post"} -> "post"
      [] w \in {"PRE", "Pre"} -> "pre"
      [] w \in {"IN", "In"} -> "in"
      [] w \in {"LEADS", "Leads"} -> "leads"
      [] w \in {"WINS", "Wins"} -> "wins"
      [] w \in {"SERIES", "Series"} -> "series"
      [] w \in {"TIED", "Tied"} -> "tied"
      [] w \in {"EVEN", "Even"} -> "even"
      [] w \in {"TRAILS", "Trails"} -> "trails"
      [] w \in {"DALLAS", "Dallas"} -> "dallas"
      [] w \in {"MAVERICKS", "Mavericks"} -> "mavericks"
      [] w \in {"MAVS", "Mavs"} -> "mavs"
      [] w \in {"DAL", "Dal"} -> "dal"
      [] w \in {"BOSTON", "Boston"} -> "boston"
      [] w \in {"CELTICS", "Celtics"} -> "celtics"
      [] w \in {"BOS", "Bos"} -> "bos"
      [] w \in {"LAKERS", "Lakers"} -> "lakers"
      [] OTHER -> w

Upper(w) ==
    CASE Lower(w) = "pts" -> "PTS"
      [] Lower(w) = "reb" -> "REB"
      [] Lower(w) = "ast" -> "AST"
      [] Lower(w) = "points" -> "POINTS"
      [] Lower(w) = "rebounds" -> "REBOUNDS"
      [] Lower(w) = "assists" -> "ASSISTS"
      [] Lower(w) = "min" -> "MIN"
      [] Lower(w) = "stl" -> "STL"
      [] OTHER -> w

\* A text of several words, lowered word by word.
LowerAll(ws) == [i \in 1..Len(ws) |-> Lower(ws[i])]

Min(S) == CHOOSE x \in S : \A y \in S : x <= y
Max(S) == CHOOSE x \in S : \A y \in S : x >= y

RECURSIVE Flatten(_)
Flatten(ss) == IF ss = <<>> THEN <<>> ELSE Head(ss) \o Flatten(Tail(ss))

\* ----------------------------------------------------------------- _lookup

LongForm == [pts |-> "points", reb |-> "rebounds", ast |-> "assists"]

\* The index, from 0, of the first column named wanted or by its long form; -1
\* when there is none.
_lookup(names, wanted) ==
    LET w == Lower(wanted)
        hits == {i \in 1..Len(names) : Lower(names[i]) \in {w, LongForm[w]}}
    IN  IF hits = {} THEN -1 ELSE Min(hits) - 1

\* -------------------------------------------------------- _collect_players

\* athlete.get("displayName", "Unknown")
NameOrUnknown(a) == IF a.displayName = Absent THEN "Unknown" ELSE a.displayName

\* _safe without the test 0 <= i: Python reads raw[-1], the last value.
SafeNoLowerBound(raw, i) ==
    IF i < Len(raw) /\ raw # <<>> THEN _to_int(raw[IF i < 0 THEN Len(raw) + i + 1 ELSE i + 1])
    ELSE 0

_safe(raw, i) == IF 0 <= i /\ i < Len(raw) THEN _to_int(raw[i + 1]) ELSE 0

\* Format A: a dict whose first statistics block lists athletes.
IsFormatA(roster) ==
    /\ roster.kind = "dict"
    /\ roster.statistics # <<>>
    /\ roster.statistics[1].athletes # <<>>

FormatALines(roster) ==
    LET block == roster.statistics[1]
        cols == [i \in 1..Len(block.names) |-> Upper(block.names[i])]
        idx_pts == _lookup(cols, "pts")
        idx_reb == _lookup(cols, "reb")
        idx_ast == _lookup(cols, "ast")
    IN  [k \in 1..Len(block.athletes) |->
            [name |-> NameOrUnknown(block.athletes[k]),
             pts |-> _safe(block.athletes[k].stats, idx_pts),
             reb |-> _safe(block.athletes[k].stats, idx_reb),
             ast |-> _safe(block.athletes[k].stats, idx_ast)]]

\* (cat.get("abbreviation") or cat.get("name", "")).upper()
CatKey(cat) ==
    Upper(IF cat.abbreviation \notin {Absent, ""} THEN cat.abbreviation
          ELSE IF cat.name = Absent THEN "" ELSE cat.name)

\* The value the loop over the categories leaves in vals: 0, or that of the last
\* category with one of the keys.
CatValue(cats, keys) ==
    LET hits == {i \in 1..Len(cats) : CatKey(cats[i]) \in keys}
    IN  IF hits = {} THEN 0 ELSE _to_int(cats[Max(hits)].value)

FormatBLines(roster) ==
    [k \in 1..Len(roster.entries) |->
        [name |-> NameOrUnknown(roster.entries[k]),
         pts |-> CatValue(roster.entries[k].statistics, {"PTS", "POINTS"}),
         reb |-> CatValue(roster.entries[k].statistics, {"REB", "REBOUNDS"}),
         ast |-> CatValue(roster.entries[k].statistics, {"AST", "ASSISTS"})]]

RosterLines(roster) ==
    IF IsFormatA(roster) THEN FormatALines(roster)
    ELSE IF roster.kind = "list" THEN FormatBLines(roster)
    ELSE <<>>

_collect_players(box) ==
    Flatten([r \in 1..Len(box.players) |-> RosterLines(box.players[r])])

\* ------------------------------------------------ boxscores of the model

Chars2(a, b) == StrV(<<a, b>>)

Athlete(name, stats) == [displayName |-> name, stats |-> stats]
Block(names, athletes) == [names |-> names, athletes |-> athletes]
DictRoster(blocks) == [kind |-> "dict", statistics |-> blocks, entries |-> <<>>]
ListRoster(entries) == [kind |-> "list", statistics |-> <<>>, entries |-> entries]
Cat(abbr, name, value) == [abbreviation |-> abbr, name |-> name, value |-> value]
Ply(name, cats) == [displayName |-> name, statistics |-> cats]

FullHeader == <<"MIN", "PTS", "REB", "AST">>

RosterA1 ==
    DictRoster(<<Block(FullHeader,
        <<Athlete("Doncic", <<Chars2("3", "5"), Chars2("5", "2"), StrV(<<"5">>), StrV(<<"3">>)>>),
          Athlete("Irving", <<Chars2("3", "0"), Chars2("1", "2"), Chars2("1", "1"), Chars2("1", "0")>>)>>)>>)

\* Long column names, no assists column, a rebounds value that is no number.
RosterA2 ==
    DictRoster(<<Block(<<"points", "rebounds">>,
        <<Athlete("Tatum", <<Chars2("3", "1"), StrV(<<"x">>)>>)>>)>>)

\* A stats row shorter than the header, and an athlete without a name.
RosterA3 ==
    DictRoster(<<Block(FullHeader,
        <<Athlete("Brown", <<Chars2("1", "2")>>),
          Athlete(Absent, <<>>)>>)>>)

\* A player listed a second time, a negative value, an integer value.
RosterA4 ==
    DictRoster(<<Block(<<"Pts", "Ast">>,
        <<Athlete("Doncic", <<Chars2("-", "3"), IntV(7)>>)>>)>>)

\* Dicts that are not Format A: no statistics, no athletes.
RosterNoStats == DictRoster(<<>>)
RosterNoAthletes == DictRoster(<<Block(FullHeader, <<>>)>>)

RosterB1 ==
    ListRoster(
        <<Ply("Holiday", <<Cat("PTS", Absent, IntV(40)),
                           Cat("", "rebounds", StrV(<<"9">>)),
                           Cat("STL", "steals", IntV(2))>>),
          Ply(Absent, <<>>)>>)

\* A player listed a second time, a null value, a float, a category given twice.
RosterB2 ==
    ListRoster(
        <<Ply("Doncic", <<Cat("Ast", Absent, Null),
                          Cat(Absent, "Points", FloatV(305)),
                          Cat("REB", Absent, IntV(4)),
                          Cat("reb", Absent, IntV(-2))>>)>>)

RosterBEmpty == ListRoster(<<>>)

Rosters ==
    {RosterA1, RosterA2, RosterA3, RosterA4, RosterNoStats, RosterNoAthletes,
     RosterB1, RosterB2, RosterBEmpty}

Boxscores == {[players |-> rs] : rs \in SeqsUpTo(Rosters, MaxRosters)}

EmptyBox == [players |-> <<>>]

\* ------------------------------------------- specification: _collect_players

PlayersIdle == boxscore = EmptyBox /\ players = <<>>
LeadersIdle == leadersIn = <<>> /\ leaderOut = <<>>
SeriesIdle == summary_txt = <<>> /\ competitors = <<>> /\ series_pre = <<>>
BadgesIdle == statLines = <<>> /\ game = <<>> /\ badges = <<>>
GamesIdle == sb = <<>> /\ pos = 0 /\ summ = [boxscore |-> EmptyBox] /\ failed = {} /\ out = <<>>

InitPlayers ==
    /\ pc = "_collect_players"
    /\ boxscore \in Boxscores
    /\ players = <<>>
    /\ LeadersIdle /\ SeriesIdle /\ BadgesIdle /\ GamesIdle

CollectPlayers ==
    /\ pc = "_collect_players"
    /\ players' = _collect_players(boxscore)
    /\ pc' = "returned"
    /\ UNCHANGED <<boxscore, leaderVars, seriesVars, badgeVars, gameVars>>

NextPlayers == CollectPlayers

SpecPlayers == InitPlayers /\ [][NextPlayers]_vars

\* The players a boxscore lists, in its order: the athletes of a Format A roster's
\* first block, the entries of a Format B roster.
Listed(box) ==
    Flatten([r \in 1..Len(box.players) |->
        LET roster == box.players[r]
        IN  IF roster.kind = "dict" /\ roster.statistics # <<>>
            THEN [k \in 1..Len(roster.statistics[1].athletes) |->
                    [shape |-> "A",
                     displayName |-> roster.statistics[1].athletes[k].displayName,
                     names |-> roster.statistics[1].names,
                     stats |-> roster.statistics[1].athletes[k].stats,
                     cats |-> <<>>]]
            ELSE [k \in 1..Len(roster.entries) |->
                    [shape |-> "B",
                     displayName |-> roster.entries[k].displayName,
                     names |-> <<>>,
                     stats |-> <<>>,
                     cats |-> roster.entries[k].statistics]]])

Categories == {"pts", "reb", "ast"}

\* Category c has no value for listed player e: no column or no value in the
\* column (Format A), no category entry (Format B).
Missing(e, c) ==
    IF e.shape = "A"
    THEN LET cols == {i \in 1..Len(e.names) : Lower(e.names[i]) \in {c, LongForm[c]}}
         IN  cols = {} \/ Min(cols) > Len(e.stats)
    ELSE \A i \in 1..Len(e.cats) :
            Lower(IF e.cats[i].abbreviation \notin {Absent, ""} THEN e.cats[i].abbreviation
                  ELSE e.cats[i].name) \notin {c, LongForm[c]}

ListedName(e) == IF e.displayName = Absent THEN "Unknown" ELSE e.displayName

MissingAreZero ==
    \A k \in 1..Len(players) : \A c \in Categories :
        k <= Len(Listed(boxscore)) /\ Missing(Listed(boxscore)[k], c) => players[k][c] = 0

\* C6 as stated: _collect_players returns one line per distinct listed player
\* name, and every category missing for a player is exactly 0 in the player's line.
C6_OneLinePerDistinctName ==
    pc = "returned" =>
        /\ Len(players) = Cardinality({ListedName(Listed(boxscore)[k]) : k \in 1..Len(Listed(boxscore))})
        /\ MissingAreZero

\* C6 as amended: _collect_players returns one line per listed player entry, in
\* the order listed and under the entry's name ("Unknown" without one), a name
\* listed twice giving two lines; every category missing for a player is exactly
\* 0 in the player's line.
C6_OneLinePerListedEntry ==
    pc = "returned" =>
        /\ Len(players) = Len(Listed(boxscore))
        /\ \A k \in 1..Len(players) : players[k].name = ListedName(Listed(boxscore)[k])
        /\ \A k \in 1..Len(players) : \A c \in Categories : players[k][c] \in Int
        /\ MissingAreZero

\* A boxscore of both shapes with a name listed twice and a missing category in
\* each shape has been read.
C6_Witness ==
    /\ pc = "returned"
    /\ \E j, k \in 1..Len(players) : j # k /\ players[j].name = players[k].name
    /\ \E k \in 1..Len(players) : \E c \in Categories :
            Listed(boxscore)[k].shape = "A" /\ Missing(Listed(boxscore)[k], c)
    /\ \E k \in 1..Len(players) : \E c \in Categories :
            Listed(boxscore)[k].shape = "B" /\ Missing(Listed(boxscore)[k], c)

\* C8 as stated: in every stat line pts, reb and ast are non-negative integers,
\* whatever the upstream values.
C8_NonNegative ==
    pc = "returned" =>
        \A k \in 1..Len(players) : \A c \in Categories :
            players[k][c] \in Int /\ players[k][c] >= 0

\* -------------------------------------------------------- _fallback_leaders

\* mapping.get(leader.get("abbreviation")): None for any other abbreviation.
LeaderCategory(abbr) ==
    CASE abbr = "PTS" -> "pts"
      [] abbr = "REB" -> "reb"
      [] abbr = "AST" -> "ast"
      [] OTHER -> None

\* ath.get("displayName")
NameOrNone(l) == IF l.displayName = Absent THEN None ELSE l.displayName

\* One pass of the inner loop without the search for the player's entry.
AddLeaderNoMerge(lines, cat, l) ==
    Append(lines, [[name |-> NameOrNone(l), pts |-> 0, reb |-> 0, ast |-> 0]
                      EXCEPT ![cat] = _to_int(l.value)])

\* One pass of the inner loop: the player's entry, found or appended, gets the
\* value in the field of the category.
AddLeader(lines, cat, l) ==
    LET found == {i \in 1..Len(lines) : lines[i].name = NameOrNone(l)}
    IN  IF found # {}
        THEN [lines EXCEPT ![Min(found)][cat] = _to_int(l.value)]
        ELSE Append(lines, [[name |-> NameOrNone(l), pts |-> 0, reb |-> 0, ast |-> 0]
                               EXCEPT ![cat] = _to_int(l.value)])

RECURSIVE AddLeaders(_, _, _)
AddLeaders(lines, cat, ls) ==
    IF ls = <<>> THEN lines
    ELSE AddLeaders(AddLeader(lines, cat, Head(ls)), cat, Tail(ls))

RECURSIVE LeaderLoop(_, _)
LeaderLoop(lines, groups) ==
    IF groups = <<>> THEN lines
    ELSE IF LeaderCategory(Head(groups).abbreviation) = None
         THEN LeaderLoop(lines, Tail(groups))
         ELSE LeaderLoop(AddLeaders(lines, LeaderCategory(Head(groups).abbreviation),
                                    Head(groups).leaders),
                         Tail(groups))

_fallback_leaders(leaders) == LeaderLoop(<<>>, leaders)

\* --------------------------------------------------- leaders of the model

Leader(name, value) == [displayName |-> name, value |-> value]
Group(abbr, ls) == [abbreviation |-> abbr, leaders |-> ls]

LeaderGroups ==
    {Group("PTS", <<Leader("A", IntV(30))>>),
     Group("REB", <<Leader("A", IntV(10))>>),
     Group("AST", <<Leader("B", IntV(9))>>),
     Group("PTS", <<Leader("B", StrV(<<"x">>)), Leader("A", FloatV(315))>>),
     Group("STL", <<Leader("A", IntV(5)), Leader("D", IntV(3))>>),
     Group("pts", <<Leader("C", IntV(20))>>),
     Group("REB", <<Leader(Absent, IntV(7)), Leader("B", Chars2("1", "2"))>>),
     Group("AST", <<Leader("A", Null), Leader("C", IntV(4))>>),
     Group(Absent, <<Leader("E", IntV(1))>>)}

\* ------------------------------------------ specification: _fallback_leaders

InitLeaders ==
    /\ pc = "_fallback_leaders"
    /\ leadersIn \in SeqsUpTo(LeaderGroups, MaxGroups)
    /\ leaderOut = <<>>
    /\ PlayersIdle /\ SeriesIdle /\ BadgesIdle /\ GamesIdle

FallbackLeaders ==
    /\ pc = "_fallback_leaders"
    /\ leaderOut' = _fallback_leaders(leadersIn)
    /\ pc' = "returned"
    /\ UNCHANGED <<leadersIn, playerVars, seriesVars, badgeVars, gameVars>>

NextLeaders == FallbackLeaders

SpecLeaders == InitLeaders /\ [][NextLeaders]_vars

\* The entries of the PTS, REB and AST groups, in the order given.
Entries(groups) ==
    Flatten([g \in 1..Len(groups) |->
        IF groups[g].abbreviation \in {"PTS", "REB", "AST"}
        THEN [k \in 1..Len(groups[g].leaders) |->
                [abbr |-> groups[g].abbreviation,
                 name |-> NameOrNone(groups[g].leaders[k]),
                 value |-> groups[g].leaders[k].value]]
        ELSE <<>>])

\* The value the groups give player n under abbreviation abbr (the later one of
\* two), or 0 when they give none.
GroupValue(groups, n, abbr) ==
    LET es == Entries(groups)
        at == {i \in 1..Len(es) : es[i].name = n /\ es[i].abbr = abbr}
    IN  IF at = {} THEN 0 ELSE _to_int(es[Max(at)].value)

\* C7: _fallback_leaders returns exactly one stat line per distinct display name
\* of the PTS, REB and AST groups; a line carries each group's value for the
\* player in the matching field and 0 in the field of a group without the player;
\* groups of any other abbreviation contribute nothing.
C7_MergedByName ==
    pc = "returned" =>
        /\ \A j, k \in 1..Len(leaderOut) : leaderOut[j].name = leaderOut[k].name => j = k
        /\ {leaderOut[k].name : k \in 1..Len(leaderOut)}
             = {Entries(leadersIn)[i].name : i \in 1..Len(Entries(leadersIn))}
        /\ \A k \in 1..Len(leaderOut) :
             /\ leaderOut[k].pts = GroupValue(leadersIn, leaderOut[k].name, "PTS")
             /\ leaderOut[k].reb = GroupValue(leadersIn, leaderOut[k].name, "REB")
             /\ leaderOut[k].ast = GroupValue(leadersIn, leaderOut[k].name, "AST")

\* The leaders of the example have been merged: A in two groups, B in one, and
\* a group of another abbreviation beside them.
C7_Witness ==
    /\ pc = "returned"
    /\ \E g \in 1..Len(leadersIn) : leadersIn[g].abbreviation \notin {"PTS", "REB", "AST"}
    /\ \E k \in 1..Len(leaderOut) :
         leaderOut[k] = [name |-> "A", pts |-> 30, reb |-> 10, ast |-> 0]

\* ------------------------------------------------------ _series_before_game

\* A text is a sequence of tokens: a word, or a score "<wins>-<losses>" whose
\* counts are kept as their characters.
Word(w) == [word |-> w, wins |-> <<>>, losses |-> <<>>]
ScoreTok(ws, ls) == [word |-> "", wins |-> ws, losses |-> ls]

Words(ws) == [i \in 1..Len(ws) |-> Word(ws[i])]
WordsOf(toks) == [i \in 1..Len(toks) |-> toks[i].word]

\* \d+-\d+
IsScore(tok) ==
    /\ tok.wins # <<>> /\ \A i \in 1..Len(tok.wins) : IsDigit(tok.wins[i])
    /\ tok.losses # <<>> /\ \A i \in 1..Len(tok.losses) : IsDigit(tok.losses[i])

\* str(k), as an f-string writes a count.
IntStr(k) == IF k < 0 THEN <<"-">> \o DecStr(0 - k) ELSE DecStr(k)

NoMatch == [matched |-> FALSE, team |-> <<>>, verb |-> "", wins |-> <<>>, losses |-> <<>>]

\* _SERIES_RE.match: the shortest team text, of one word or more, that "leads" or
\* "wins", "series" and a score follow; what comes after the score is not read.
SeriesMatch(txt) ==
    LET ks == {k \in 1..(Len(txt) - 3) :
                 /\ Lower(txt[k + 1].word) \in {"leads", "wins"}
                 /\ Lower(txt[k + 2].word) = "series"
                 /\ IsScore(txt[k + 3])}
    IN  IF ks = {} THEN NoMatch
        ELSE [matched |-> TRUE,
              team |-> WordsOf(SubSeq(txt, 1, Min(ks))),
              verb |-> txt[Min(ks) + 1].word,
              wins |-> txt[Min(ks) + 3].wins,
              losses |-> txt[Min(ks) + 3].losses]

\* _TIED_RE.match: "Series", "even" or "tied" and a score, at the start.
TiedMatch(txt) ==
    IF /\ Len(txt) >= 3
       /\ Lower(txt[1].word) = "series"
       /\ Lower(txt[2].word) \in {"even", "tied"}
       /\ IsScore(txt[3])
    THEN [matched |-> TRUE, team |-> <<>>, verb |-> "",
          wins |-> txt[3].wins, losses |-> txt[3].losses]
    ELSE NoMatch

Aliases(team) == {team.displayName, team.shortDisplayName, team.name, team.abbreviation}

\* _match_team_to_abbr without .lower().
MatchTeamCaseSensitive(team_str, comps) ==
    LET hits == {i \in 1..Len(comps) : team_str \in Aliases(comps[i].team)}
    IN  IF hits = {} THEN team_str ELSE comps[Min(hits)].team.abbreviation

_match_team_to_abbr(team_str, comps) ==
    LET hits == {i \in 1..Len(comps) :
                    LowerAll(team_str) \in {LowerAll(a) : a \in Aliases(comps[i].team)}}
    IN  IF hits = {} THEN team_str ELSE comps[Min(hits)].team.abbreviation

\* The index of winner_team: the first competitor flagged winner, else the first.
WinnerIndex(comps) ==
    IF \E i \in 1..Len(comps) : comps[i].winner
    THEN Min({i \in 1..Len(comps) : comps[i].winner})
    ELSE 1

\* loser_abbr without the test for the winner's position.
LoserAlwaysSecond(comps) == comps[2].team.abbreviation

LoserAbbr(comps) ==
    IF WinnerIndex(comps) = 2 THEN comps[1].team.abbreviation
    ELSE comps[2].team.abbreviation

\* f"{abbr} leads series {w}-{l}"
LabelText(abbr, w, l) ==
    Words(abbr) \o <<Word("leads"), Word("series"), ScoreTok(IntStr(w), IntStr(l))>>

\* The branch of a "leads" or "wins" text.
LeadsLabel(m, comps) ==
    LET leader_abbr == _match_team_to_abbr(m.team, comps)
        winner_abbr == comps[WinnerIndex(comps)].team.abbreviation
        wins == DecVal(m.wins)
        losses == DecVal(m.losses)
    IN  IF Lower(m.verb) = "wins" THEN LabelText(leader_abbr, wins - 1, losses)
        ELSE IF leader_abbr = winner_abbr THEN LabelText(leader_abbr, wins - 1, losses)
        ELSE LabelText(leader_abbr, wins, losses - 1)

\* The tied branch with wins in the place of wins-1.
TiedLabelNoDecrement(m, comps) ==
    LabelText(LoserAbbr(comps), DecVal(m.wins), DecVal(m.wins))

\* The branch of a "tied" or "even" text.
TiedLabel(m, comps) ==
    LabelText(LoserAbbr(comps), DecVal(m.wins), DecVal(m.wins) - 1)

_series_before_game(txt, comps) ==
    IF SeriesMatch(txt).matched THEN LeadsLabel(SeriesMatch(txt), comps)
    ELSE IF TiedMatch(txt).matched THEN TiedLabel(TiedMatch(txt), comps)
    ELSE txt

\* ------------------------------------------------ the teams and the texts

Dallas ==
    [displayName |-> <<"Dallas", "Mavericks">>, shortDisplayName |-> <<"Mavs">>,
     name |-> <<"Mavericks">>, abbreviation |-> <<"DAL">>, logo |-> "dal.png"]

Boston ==
    [displayName |-> <<"Boston", "Celtics">>, shortDisplayName |-> <<"Celtics">>,
     name |-> <<"Celtics">>, abbreviation |-> <<"BOS">>, logo |-> "bos.png"]

Side(team, homeAway, winner, score, linescores) ==
    [team |-> team, homeAway |-> homeAway, winner |-> winner, score |-> score,
     linescores |-> linescores]

\* The two competitors in either order, with every setting of the winner flags.
CompetitorPairs ==
    {<<Side(ts[1], "home", w1, Null, <<>>), Side(ts[2], "away", w2, Null, <<>>)>> :
        ts \in {<<Dallas, Boston>>, <<Boston, Dallas>>}, w1 \in BOOLEAN, w2 \in BOOLEAN}

TeamTexts ==
    {<<"DAL">>, <<"Dal">>, <<"Mavericks">>, <<"MAVERICKS">>, <<"Mavs">>,
     <<"Dallas", "Mavericks">>, <<"BOS">>, <<"Celtics">>, <<"Lakers">>}

Counts == 0..MaxWins

LeadsTexts ==
    {Words(t) \o <<Word(v), Word(s), ScoreTok(DecStr(w), DecStr(l))>> :
        t \in TeamTexts, v \in {"leads", "wins", "Leads", "WINS"}, s \in {"series"},
        w \in Counts, l \in Counts}

TiedTexts ==
    {<<Word(s), Word(v), ScoreTok(DecStr(w), DecStr(l))>> :
        s \in {"Series", "series"}, v \in {"tied", "even", "Tied"},
        w \in Counts, l \in Counts}

\* Texts with words after the score, and texts of no recognized pattern.
OtherTexts ==
    {<<>>,
     Words(<<"DAL", "leads", "series">>) \o <<ScoreTok(<<"3">>, <<"2">>)>> \o Words(<<"in", "Finals">>),
     Words(<<"Series", "tied">>) \o <<ScoreTok(<<"2">>, <<"2">>)>> \o Words(<<"in", "Finals">>),
     Words(<<"DAL", "trails", "series">>) \o <<ScoreTok(<<"1">>, <<"2">>)>>,
     Words(<<"leads", "series">>) \o <<ScoreTok(<<"1">>, <<"0">>)>>,
     Words(<<"Game", "postponed">>),
     Words(<<"BOS", "leads", "series">>),
     Words(<<"Series", "leads", "series">>) \o <<ScoreTok(<<"1">>, <<"0">>)>>}

SummaryTexts == LeadsTexts \cup TiedTexts \cup OtherTexts

\* ---------------------------------------- specification: _series_before_game

InitSeries ==
    /\ pc = "_series_before_game"
    /\ summary_txt \in SummaryTexts
    /\ competitors \in CompetitorPairs
    /\ series_pre = <<>>
    /\ PlayersIdle /\ LeadersIdle /\ BadgesIdle /\ GamesIdle

SeriesBeforeGame ==
    /\ pc = "_series_before_game"
    /\ series_pre' = _series_before_game(summary_txt, competitors)
    /\ pc' = "returned"
    /\ UNCHANGED <<summary_txt, competitors, playerVars, leaderVars, badgeVars, gameVars>>

NextSeries == SeriesBeforeGame

SpecSeries == InitSeries /\ [][NextSeries]_vars

\* The text is "<Team> leads|wins series <W>-<L>" and nothing more.
IsLeadsText(txt) ==
    /\ Len(txt) >= 4
    /\ IsScore(txt[Len(txt)])
    /\ Lower(txt[Len(txt) - 1].word) = "series"
    /\ Lower(txt[Len(txt) - 2].word) \in {"leads", "wins"}
    /\ \A i \in 1..(Len(txt) - 3) : ~IsScore(txt[i])

\* The text is "Series tied|even <W>-<W2>" and nothing more.
IsTiedText(txt) ==
    /\ Len(txt) = 3
    /\ IsScore(txt[3])
    /\ Lower(txt[1].word) = "series"
    /\ Lower(txt[2].word) \in {"tied", "even"}

TeamOf(txt) == WordsOf(SubSeq(txt, 1, Len(txt) - 3))
VerbOf(txt) == Lower(txt[Len(txt) - 2].word)
StatedWins(txt) == DecVal(txt[Len(txt)].wins)
StatedLosses(txt) == DecVal(txt[Len(txt)].losses)

\* The competitors a team text names, by any of the four names, in any case.
Named(team, comps) ==
    {i \in 1..Len(comps) :
        \E a \in Aliases(comps[i].team) : LowerAll(a) = LowerAll(team)}

Declared(comps) == {i \in 1..Len(comps) : comps[i].winner}

OneWinner(comps) == Cardinality(Declared(comps)) = 1

DeclaredWinner(comps) == comps[CHOOSE i \in Declared(comps) : TRUE]
DeclaredLoser(comps) == comps[CHOOSE i \in 1..Len(comps) : i \notin Declared(comps)]

\* C3: for a text "<Team> leads|wins series <W>-<L>" whose team text names a
\* competitor with abbreviation A, in a contest with a declared winner,
\* _series_before_game returns "A leads series <W-1>-<L>" when the verb is "wins"
\* or A is the declared winner, and "A leads series <W>-<L-1>" when the verb is
\* "leads" and A is not the declared winner.
C3_LeadsOrWins ==
    (/\ pc = "returned"
     /\ IsLeadsText(summary_txt)
     /\ OneWinner(competitors)
     /\ Named(TeamOf(summary_txt), competitors) # {})
    =>
    LET A == competitors[CHOOSE i \in Named(TeamOf(summary_txt), competitors) : TRUE].team.abbreviation
        W == StatedWins(summary_txt)
        L == StatedLosses(summary_txt)
    IN  IF VerbOf(summary_txt) = "wins" \/ A = DeclaredWinner(competitors).team.abbreviation
        THEN series_pre = LabelText(A, W - 1, L)
        ELSE series_pre = LabelText(A, W, L - 1)

\* "MAVERICKS leads series 3-2" after a game that Boston won has given
\* "DAL leads series 3-1".
C3_Witness ==
    /\ pc = "returned"
    /\ summary_txt = Words(<<"MAVERICKS", "leads", "series">>) \o <<ScoreTok(<<"3">>, <<"2">>)>>
    /\ OneWinner(competitors)
    /\ DeclaredWinner(competitors).team = Boston
    /\ series_pre = LabelText(<<"DAL">>, 3, 1)

\* C4: for a text "Series tied <W>-<W2>" or "Series even <W>-<W2>",
\* _series_before_game returns "<loser> leads series <W>-<W-1>", the loser being
\* the competitor that is not the declared winner, in either position.
C4_Tied ==
    (/\ pc = "returned"
     /\ IsTiedText(summary_txt)
     /\ OneWinner(competitors))
    =>
    series_pre = LabelText(DeclaredLoser(competitors).team.abbreviation,
                           StatedWins(summary_txt), StatedWins(summary_txt) - 1)

\* "Series tied 2-2" with the winner in the second position has given the first
\* competitor's abbreviation and 2-1.
C4_Witness ==
    /\ pc = "returned"
    /\ IsTiedText(summary_txt)
    /\ StatedWins(summary_txt) = 2 /\ StatedLosses(summary_txt) = 2
    /\ Declared(competitors) = {2}
    /\ series_pre = LabelText(competitors[1].team.abbreviation, 2, 1)

\* The counts of a label.
LabelWins(label) == IntOfStr(label[Len(label)].wins)
LabelLosses(label) == IntOfStr(label[Len(label)].losses)

\* One of the two counts of the text is lowered by one, the other kept.
OneDecrement(txt, label) ==
    \/ LabelWins(label) = StatedWins(txt) - 1 /\ LabelLosses(label) = StatedLosses(txt)
    \/ LabelWins(label) = StatedWins(txt) /\ LabelLosses(label) = StatedLosses(txt) - 1

\* C10 as stated: for every text of a recognized pattern (leads, wins, tied or
\* even) with any counts, the label differs from the counts of the text by
\* exactly one decrement.
C10_OneDecrementAnyCounts ==
    (pc = "returned" /\ (IsLeadsText(summary_txt) \/ IsTiedText(summary_txt)))
    => OneDecrement(summary_txt, series_pre)

\* C10 as amended: the label differs from the counts of the text by exactly one
\* decrement for every leads or wins text with any counts and for every tied or
\* even text whose two counts are equal; a tied or even text "<W>-<W2>" with
\* other counts gives <W>-<W-1>, whatever W2 is.
C10_OneDecrement ==
    /\ (pc = "returned" /\ IsLeadsText(summary_txt))
         => OneDecrement(summary_txt, series_pre)
    /\ (pc = "returned" /\ IsTiedText(summary_txt))
         => /\ LabelWins(series_pre) = StatedWins(summary_txt)
            /\ LabelLosses(series_pre) = StatedWins(summary_txt) - 1
            /\ (StatedLosses(summary_txt) = StatedWins(summary_txt)
                  => OneDecrement(summary_txt, series_pre))

\* A tied text with equal counts has been turned into a label one game shorter.
C10_Witness ==
    /\ pc = "returned"
    /\ IsTiedText(summary_txt)
    /\ StatedWins(summary_txt) = StatedLosses(summary_txt)
    /\ LabelWins(series_pre) + LabelLosses(series_pre)
         = StatedWins(summary_txt) + StatedLosses(summary_txt) - 1

\* ------------------------------------------------- _evaluate_games: badges

\* comp["status"].get("period", 4)
PeriodOr4(status) == IF status.period = NoValue THEN IntV(4) ELSE status.period

\* home, away = comp["competitors"], swapped when the first one plays away.
HomeOf(comps) == IF comps[1].homeAway = "away" THEN comps[2] ELSE comps[1]
AwayOf(comps) == IF comps[1].homeAway = "away" THEN comps[1] ELSE comps[2]

Abs(x) == IF x < 0 THEN 0 - x ELSE x

\* max((p["pts"] for p in players), default=0)
MaxPts(ps) == IF ps = <<>> THEN 0 ELSE Max({ps[k].pts : k \in 1..Len(ps)})

\* The scoring tier with if in the place of elif.
PtsTierEveryThreshold(ps) ==
    (IF MaxPts(ps) >= 50 THEN <<"pts50">> ELSE <<>>)
    \o (IF MaxPts(ps) >= 40 THEN <<"pts40">> ELSE <<>>)
    \o (IF MaxPts(ps) >= 30 THEN <<"pts30">> ELSE <<>>)

PtsTier(ps) ==
    IF MaxPts(ps) >= 50 THEN <<"pts50">>
    ELSE IF MaxPts(ps) >= 40 THEN <<"pts40">>
    ELSE IF MaxPts(ps) >= 30 THEN <<"pts30">>
    ELSE <<>>

TripleDouble(ps) ==
    IF \E k \in 1..Len(ps) : ps[k].pts >= 10 /\ ps[k].reb >= 10 /\ ps[k].ast >= 10
    THEN <<"tripleDouble">> ELSE <<>>

RECURSIVE SumValues(_)
SumValues(lss) == IF lss = <<>> THEN 0 ELSE _to_int(Head(lss).value) + SumValues(Tail(lss))

\* q3tot: the line scores of the first three periods, added up.
q3tot(team) ==
    SumValues(SubSeq(team.linescores, 1, IF Len(team.linescores) < 3 THEN Len(team.linescores) ELSE 3))

Close4(home, away) ==
    IF Abs(q3tot(home) - q3tot(away)) <= 10 THEN <<"close4">> ELSE <<>>

\* closeGame by the margin alone.
CloseGameMarginOnly(home, away, status) ==
    IF Abs(_to_int(home.score) - _to_int(away.score)) <= 7 THEN <<"closeGame">> ELSE <<>>

CloseGame(home, away, status) ==
    IF \/ Abs(_to_int(home.score) - _to_int(away.score)) <= 7
       \/ _to_int(PeriodOr4(status)) > 4
    THEN <<"closeGame">> ELSE <<>>

Overtime(status) == IF _to_int(PeriodOr4(status)) > 4 THEN <<"overtime">> ELSE <<>>

Badges(ps, comp) ==
    PtsTier(ps)
    \o TripleDouble(ps)
    \o Close4(HomeOf(comp.competitors), AwayOf(comp.competitors))
    \o CloseGame(HomeOf(comp.competitors), AwayOf(comp.competitors), comp.status)
    \o Overtime(comp.status)

\* ------------------------------------- the stat lines and games of the model

Line(name, pts, reb, ast) == [name |-> name, pts |-> pts, reb |-> reb, ast |-> ast]

StatLineSet ==
    {Line("A", 0, 0, 0), Line("A", 29, 3, 3), Line("B", 30, 0, 0), Line("B", 39, 12, 4),
     Line("C", 40, 0, 0), Line("C", 49, 9, 10), Line("D", 50, 0, 0), Line("D", 52, 5, 3),
     Line("E", 15, 11, 10), Line("E", 10, 10, 9), Line("F", -3, 0, 7)}

Chars3(a, b, c) == StrV(<<a, b, c>>)

Quarters(a, b, c, d) == <<[value |-> a], [value |-> b], [value |-> c], [value |-> d]>>

ScorePairs ==
    {<<Chars3("1", "1", "2"), Chars3("1", "0", "5")>>,
     <<Chars3("1", "1", "2"), Chars3("1", "0", "4")>>,
     <<Chars2("9", "9"), Chars3("1", "2", "0")>>,
     <<StrV(<<"x">>), StrV(<<"3">>)>>,
     <<IntV(100), IntV(108)>>,
     <<Null, Chars3("1", "1", "0")>>}

Periods == {NoValue, IntV(4), IntV(5), StrV(<<"5">>), StrV(<<"x">>), Null}

LinescorePairs ==
    {<<Quarters(IntV(25), IntV(25), IntV(25), IntV(37)), Quarters(IntV(30), IntV(30), IntV(25), IntV(20))>>,
     <<Quarters(IntV(40), IntV(30), StrV(<<"x">>), IntV(12)), <<[value |-> FloatV(305)], [value |-> Null]>>>>}

Comp(c1, c2, state, period) ==
    [competitors |-> <<c1, c2>>, status |-> [state |-> state, period |-> period],
     leaders |-> <<>>]

BadgeGames ==
    {Comp(Side(Dallas, "home", TRUE, sc[1], ls[1]), Side(Boston, "away", FALSE, sc[2], ls[2]),
          "post", p) :
        sc \in ScorePairs, ls \in LinescorePairs, p \in Periods}

\* --------------------------------------------- specification: the badges

InitBadges ==
    /\ pc = "badges"
    /\ statLines \in SeqsUpTo(StatLineSet, MaxPlayers)
    /\ game \in BadgeGames
    /\ badges = <<>>
    /\ PlayersIdle /\ LeadersIdle /\ SeriesIdle /\ GamesIdle

EvaluateBadges ==
    /\ pc = "badges"
    /\ badges' = Badges(statLines, game)
    /\ pc' = "returned"
    /\ UNCHANGED <<statLines, game, playerVars, leaderVars, seriesVars, gameVars>>

NextBadges == EvaluateBadges

SpecBadges == InitBadges /\ [][NextBadges]_vars

Has(bs, b) == \E i \in 1..Len(bs) : bs[i] = b
Count(bs, b) == Cardinality({i \in 1..Len(bs) : bs[i] = b})
IndexOf(bs, b) == CHOOSE i \in 1..Len(bs) : bs[i] = b

\* The most points of any player, 0 without players.
MostPoints(ps) ==
    IF ps = <<>> THEN 0
    ELSE CHOOSE m \in {ps[k].pts : k \in 1..Len(ps)} : \A k \in 1..Len(ps) : ps[k].pts <= m

\* C5: the badge list has at most one of pts30, pts40 and pts50, the one of the
\* highest threshold the most points of any player reach: pts50 from 50, else
\* pts40 from 40, else pts30 from 30, else none of the three.
C5_HighestTierOnly ==
    pc = "returned" =>
        /\ Count(badges, "pts50") = (IF MostPoints(statLines) >= 50 THEN 1 ELSE 0)
        /\ Count(badges, "pts40")
             = (IF MostPoints(statLines) >= 40 /\ MostPoints(statLines) < 50 THEN 1 ELSE 0)
        /\ Count(badges, "pts30")
             = (IF MostPoints(statLines) >= 30 /\ MostPoints(statLines) < 40 THEN 1 ELSE 0)

\* Two players, one of 52 points and one of 39, have given pts50 alone.
C5_Witness ==
    /\ pc = "returned"
    /\ Len(statLines) = 2
    /\ {statLines[1].pts, statLines[2].pts} = {52, 39}
    /\ Has(badges, "pts50") /\ ~Has(badges, "pts40") /\ ~Has(badges, "pts30")

FinalMargin(comp) ==
    Abs(_to_int(comp.competitors[1].score) - _to_int(comp.competitors[2].score))

ReportedPeriods(comp) ==
    IF comp.status.period = NoValue THEN 4 ELSE _to_int(comp.status.period)

\* C9: the badge list has closeGame exactly when the final scores differ by 7 or
\* less or the period count is above 4, and overtime exactly when the period
\* count is above 4; a score or period count that is no number counts as 0, an
\* absent period count as 4; overtime never comes without closeGame, which
\* stands before it.
C9_CloseGameAndOvertime ==
    pc = "returned" =>
        /\ Has(badges, "closeGame") <=> (FinalMargin(game) <= 7 \/ ReportedPeriods(game) > 4)
        /\ Has(badges, "overtime") <=> ReportedPeriods(game) > 4
        /\ Has(badges, "overtime") =>
             Has(badges, "closeGame") /\ IndexOf(badges, "closeGame") < IndexOf(badges, "overtime")
        /\ Count(badges, "closeGame") <= 1 /\ Count(badges, "overtime") <= 1

\* A game of five periods decided by 21 points has given closeGame and overtime.
C9_Witness ==
    /\ pc = "returned"
    /\ FinalMargin(game) = 21
    /\ ReportedPeriods(game) = 5
    /\ Has(badges, "closeGame") /\ Has(badges, "overtime")

\* --------------------------------------------------------- _evaluate_games

\* _parse_round_and_game: the first two parts of the first "event" note whose
\* headline has two parts or more; a headline is kept as its parts around " - ".
_parse_round_and_game(event) ==
    LET hits == {i \in 1..Len(event.notes) :
                    event.notes[i].type = "event" /\ Len(event.notes[i].headline) >= 2}
    IN  IF hits = {} THEN <<"", "">>
        ELSE <<event.notes[Min(hits)].headline[1], event.notes[Min(hits)].headline[2]>>

\* {1: "Regular Season", 3: "Playoffs"}.get(st, "Play-In"), st being 1 when absent.
GameType(event) ==
    LET st == IF event.seasonType = NoValue THEN 1 ELSE event.seasonType.n
    IN  CASE st = 1 -> "Regular Season"
          [] st = 3 -> "Playoffs"
          [] OTHER -> "Play-In"

\* The filter letting events in progress through.
FinishedOrLive(comp) == Lower(comp.status.state) \in {"post", "in"}

\* comp["status"]["type"].get("state", "").lower() == "post"
IsPost(comp) ==
    Lower(IF comp.status.state = Absent THEN "" ELSE comp.status.state) = "post"

EmptyDoc == [boxscore |-> EmptyBox]

\* The except branch leaving the upstream document in place.
SummaryKeptOnFailure(event, fetched) == event.summary

\* try: summ = _fetch_summary(...)  except Exception: summ = {}
SummaryOrEmpty(event, fetched) == IF fetched THEN event.summary ELSE EmptyDoc

\* _collect_players(summ.get("boxscore", {})) or _fallback_leaders(comp)
PlayersOf(doc, comp) ==
    IF _collect_players(doc.boxscore) # <<>> THEN _collect_players(doc.boxscore)
    ELSE _fallback_leaders(comp.leaders)

\* comp.get("series", {}).get("summary", "")
SeriesSummary(comp) == comp.series

GameRecord(event, ps, link) ==
    LET comp == event.competition
        home == HomeOf(comp.competitors)
        away == AwayOf(comp.competitors)
    IN  [gameId |-> event.id,
         tipoffUTC |-> event.date,
         home |-> home.team.abbreviation,
         away |-> away.team.abbreviation,
         homeLogo |-> home.team.logo,
         awayLogo |-> away.team.logo,
         round |-> _parse_round_and_game(event)[1],
         gameNum |-> _parse_round_and_game(event)[2],
         gameType |-> GameType(event),
         seriesPre |-> _series_before_game(SeriesSummary(comp), comp.competitors),
         badges |-> Badges(ps, comp),
         replayLink |-> link]

\* ------------------------------------------------ the events of the model

Event(id, comp, series, leaders, seasonType, notes, box) ==
    [id |-> id, date |-> "2024-06-14T00:30Z",
     competition |-> [competitors |-> comp.competitors, status |-> comp.status,
                      leaders |-> leaders, series |-> series],
     seasonType |-> seasonType, notes |-> notes,
     summary |-> [boxscore |-> box]]

Note(type, headline) == [type |-> type, headline |-> headline]

FinalsNotes == <<Note("broadcast", <<"ABC">>), Note("event", <<"NBA Finals", "Game 6">>)>>

Q(a, b, c, d) == Quarters(IntV(a), IntV(b), IntV(c), IntV(d))

\* Finished in four periods, 112-105, with a boxscore of both formats.
Event401 ==
    Event("401",
          Comp(Side(Dallas, "home", TRUE, Chars3("1", "1", "2"), Q(30, 30, 25, 27)),
               Side(Boston, "away", FALSE, Chars3("1", "0", "5"), Q(25, 25, 25, 30)),
               "post", IntV(4)),
          Words(<<"DAL", "leads", "series">>) \o <<ScoreTok(<<"3">>, <<"2">>)>>,
          <<Group("PTS", <<Leader("Doncic", IntV(41))>>)>>,
          IntV(3), FinalsNotes,
          [players |-> <<RosterA1, RosterB1>>])

\* Scheduled.
Event402 ==
    Event("402",
          Comp(Side(Boston, "home", FALSE, StrV(<<"0">>), <<>>),
               Side(Dallas, "away", FALSE, StrV(<<"0">>), <<>>),
               "pre", NoValue),
          <<>>, <<>>, IntV(3), <<>>, EmptyBox)

\* In its third period.
Event403 ==
    Event("403",
          Comp(Side(Dallas, "home", FALSE, Chars2("7", "0"), <<>>),
               Side(Boston, "away", FALSE, Chars2("6", "6"), <<>>),
               "in", IntV(3)),
          Words(<<"Series", "tied">>) \o <<ScoreTok(<<"1">>, <<"1">>)>>,
          <<Group("PTS", <<Leader("Tatum", IntV(31))>>)>>,
          IntV(3), FinalsNotes, [players |-> <<RosterA2>>])

\* Finished after five periods, the away side listed first, no boxscore upstream.
Event404 ==
    Event("404",
          Comp(Side(Boston, "away", TRUE, Chars3("1", "2", "0"), Q(20, 20, 20, 30)),
               Side(Dallas, "home", FALSE, Chars2("9", "9"), Q(35, 30, 20, 5)),
               "post", IntV(5)),
          Words(<<"Series", "tied">>) \o <<ScoreTok(<<"2">>, <<"2">>)>>,
          <<Group("PTS", <<Leader("Tatum", IntV(30))>>),
            Group("REB", <<Leader("Tatum", IntV(10))>>),
            Group("AST", <<Leader("Tatum", IntV(11))>>)>>,
          IntV(5), <<Note("event", <<"Play-In">>)>>, EmptyBox)

\* Finished, the state in capitals, no period count, no series, no leaders.
Event405 ==
    Event("405",
          Comp(Side(Dallas, "home", FALSE, IntV(100), <<>>),
               Side(Boston, "away", TRUE, IntV(108), <<>>),
               "POST", NoValue),
          <<>>, <<>>, NoValue, <<>>, [players |-> <<RosterA2>>])

\* No state.
Event406 ==
    Event("406",
          Comp(Side(Dallas, "home", FALSE, Null, <<>>),
               Side(Boston, "away", FALSE, Null, <<>>),
               Absent, NoValue),
          <<>>, <<>>, IntV(1), <<>>, EmptyBox)

Events == {Event401, Event402, Event403, Event404, Event405, Event406}

\* What find_replay_link_for_team may give: no link, or the link found.
ReplayLinks == {None, "https://watchreplay.net/replay"}

\* ----------------------------------------- specification: _evaluate_games

InitGames ==
    /\ pc = "loop"
    /\ sb \in SeqsUpTo(Events, MaxEvents)
    /\ pos = 0
    /\ summ = EmptyDoc
    /\ failed = {}
    /\ out = <<>>
    /\ PlayersIdle /\ LeadersIdle /\ SeriesIdle /\ BadgesIdle

\* The event is not finished: continue.
SkipEvent ==
    /\ pc = "loop"
    /\ pos < Len(sb)
    /\ ~IsPost(sb[pos + 1].competition)
    /\ pos' = pos + 1
    /\ UNCHANGED <<pc, sb, summ, failed, out, playerVars, leaderVars, seriesVars, badgeVars>>

\* The event is finished: its summary is fetched, or the fetch raises, and its
\* record is appended.
EvaluateEvent(fetched, link) ==
    /\ pc = "loop"
    /\ pos < Len(sb)
    /\ IsPost(sb[pos + 1].competition)
    /\ summ' = SummaryOrEmpty(sb[pos + 1], fetched)
    /\ players' = PlayersOf(summ', sb[pos + 1].competition)
    /\ out' = Append(out, GameRecord(sb[pos + 1], players', link))
    /\ failed' = IF fetched THEN failed ELSE failed \cup {pos + 1}
    /\ pos' = pos + 1
    /\ UNCHANGED <<pc, sb, boxscore, leaderVars, seriesVars, badgeVars>>

ReturnOut ==
    /\ pc = "loop"
    /\ pos = Len(sb)
    /\ pc' = "returned"
    /\ UNCHANGED <<sb, pos, summ, failed, out, playerVars, leaderVars, seriesVars, badgeVars>>

NextGames ==
    \/ SkipEvent
    \/ \E fetched \in BOOLEAN, link \in ReplayLinks : EvaluateEvent(fetched, link)
    \/ ReturnOut

SpecGames == InitGames /\ [][NextGames]_vars

\* The state of the event is "post", in any case of the letters.
Finished(event) == Lower(event.competition.status.state) = "post"

RECURSIVE FinishedIds(_)
FinishedIds(events) ==
    IF events = <<>> THEN <<>>
    ELSE (IF Finished(Head(events)) THEN <<Head(events).id>> ELSE <<>>)
         \o FinishedIds(Tail(events))

\* C1: the list _evaluate_games returns has exactly one record for each finished
\* event (state "post") and none for any other event, in the order of the events
\* in the upstream list; and so has the list built after each event taken.
C1_FinishedEventsInOrder ==
    /\ [k \in 1..Len(out) |-> out[k].gameId] = FinishedIds(SubSeq(sb, 1, pos))
    /\ pc = "returned" => [k \in 1..Len(out) |-> out[k].gameId] = FinishedIds(sb)

\* A finished event, one in progress and a second finished event have given
\* two records, in that order.
C1_Witness ==
    /\ pc = "returned"
    /\ Len(sb) = 3
    /\ Finished(sb[1]) /\ ~Finished(sb[2]) /\ Finished(sb[3])
    /\ sb[1].id # sb[3].id
    /\ Len(out) = 2 /\ out[1].gameId = sb[1].id /\ out[2].gameId = sb[3].id

\* C2: an event whose boxscore fetch fails still gives its record: the document
\* is the empty one, the stat lines are those of the leaders fallback, and the
\* loop goes on, so that every finished event has its record at the return,
\* whichever fetches failed.
C2_FetchFailureIsolated ==
    /\ pos \in failed =>
         /\ summ = EmptyDoc
         /\ players = _fallback_leaders(sb[pos].competition.leaders)
         /\ out # <<>> /\ out[Len(out)].gameId = sb[pos].id
         /\ out[Len(out)].badges = Badges(players, sb[pos].competition)
    /\ pc = "returned" => Len(out) = Len(FinishedIds(sb))
    /\ \A p \in failed : p <= pos /\ Finished(sb[p])

\* The fetch failed for a first event that has a boxscore upstream, and its
\* record and that of the next finished event are in the list returned.
C2_Witness ==
    /\ pc = "returned"
    /\ Len(sb) >= 2
    /\ failed = {1}
    /\ sb[1].summary.boxscore # EmptyBox
    /\ Finished(sb[2])
    /\ Len(out) >= 2 /\ out[1].gameId = sb[1].id /\ out[2].gameId = sb[2].id

\* ------------------------------------------------------- the whole program

Init == InitPlayers \/ InitLeaders \/ InitSeries \/ InitBadges \/ InitGames

Next == NextPlayers \/ NextLeaders \/ NextSeries \/ NextBadges \/ NextGames

Spec == Init /\ [][Next]_vars

====
